---- MODULE Spec2Model ----
(***************************************************************************)
(* FIFO lot ledger of the bullion inventory application.                   *)
(*                                                                         *)
(* Quantities are integers counting units of 0.00005 g, so that the two    *)
(* tolerances of the allocator are whole numbers (0.0001 g = 2 units,      *)
(* 0.001 g = 20 units) and a remainder strictly between 0 and the closing  *)
(* tolerance exists (1 unit).  Rates are currency per unit of quantity and *)
(* are multiples of 100, so that the percentage arithmetic of the form     *)
(* (gst / 100) is exact.  Dates are day numbers: for zero-padded ISO dates *)
(* the string order used by the filters and the millisecond order used by  *)
(* the sorts are both the order of the day numbers.  Text fields are       *)
(* sequences of characters.  Ids are drawn from a counter: generateId      *)
(* never repeats a value in practice.                                      *)
(***************************************************************************)
EXTENDS Integers, Sequences, FiniteSets, TLC

VARIABLES
    invoices,      \* App state: Invoice[], newest first
    inventory,     \* App state: InventoryBatch[], kept sorted by date
    searchQuery,   \* App state: text of the party search box
    dateRange,     \* App state: {start, end} of the report range
    lockDate,      \* App state: <<>> (null) or <<d>>
    turnoverStats, \* memo of calculateTurnoverStats(invoices, start, end)
    error,         \* InvoiceForm state: the form's error message
    toast,         \* newest toast pushed by addToast ("" when none yet)
    storage,       \* localStorage entries written by the save effect
    nextId,        \* the next value generateId returns
    mount          \* App's mount: the effects run so far, the queued setState

vars == <<invoices, inventory, searchQuery, dateRange, lockDate,
          turnoverStats, error, toast, storage, nextId, mount>>

----------------------------------------------------------------------------
(* Bounds of the model *)

(* submissions that reach handleAddInvoice in one run *)
MaxInvoices == 3

(* the days entries are dated on; the app starts with the range covering both *)
Dates == {1, 2}
InitialRange == [start |-> 1, end |-> 2]

(* Tolerances of the code, in units of 0.00005 g *)
LotCloseEpsilon == 2
ShortfallEpsilon == 20
(* the replay's 0.000001 g is 1/50 of a unit: x > 0.000001 g iff 50 x > 1 *)
ReplayEpsilonInverse == 50

DefaultGstRate == 3

----------------------------------------------------------------------------
(* Generic helpers *)

Min(a, b) == IF a < b THEN a ELSE b

(* obj.f = v on a JSON object whose field f may be absent *)
SetField(r, f, v) == [x \in (DOMAIN r) \cup {f} |-> IF x = f THEN v ELSE r[x]]

(* String.prototype.toLowerCase on the characters used here *)
ToLowerChar(c) ==
    CASE c = "A" -> "a"
      [] c = "B" -> "b"
      [] c = "C" -> "c"
      [] OTHER -> c

toLowerCase(str) == [i \in 1..Len(str) |-> ToLowerChar(str[i])]

(* String.prototype.includes *)
includes(str, q) ==
    \E i \in 0..(Len(str) - Len(q)) :
        \A j \in 1..Len(q) : str[i + j] = q[j]

(* parseFloat of a numeric text field: <<n>> is the text of n *)
parseFloat(txt) == txt[1]

(* A number field that is stored without being validated holds a number,   *)
(* NaN (parseFloat of an empty field) or, once read back from JSON, null   *)
Number(n) == [number |-> n]
NaN == [NaN |-> TRUE]
null == [null |-> TRUE]

parseFloatOrNaN(txt) == IF txt = <<>> THEN NaN ELSE Number(parseFloat(txt))

(* a sort that is not stable: an element goes before the elements of its   *)
(* own date                                                                *)
RECURSIVE InsertByDate_unstable(_, _)
InsertByDate_unstable(sorted, x) ==
    IF sorted = <<>> THEN <<x>>
    ELSE IF Head(sorted).date < x.date
         THEN <<Head(sorted)>> \o InsertByDate_unstable(Tail(sorted), x)
         ELSE <<x>> \o sorted

(* Array.prototype.sort((a, b) => time(a.date) - time(b.date)): stable *)
RECURSIVE InsertByDate(_, _)
InsertByDate(sorted, x) ==
    IF sorted = <<>> THEN <<x>>
    ELSE IF Head(sorted).date <= x.date
         THEN <<Head(sorted)>> \o InsertByDate(Tail(sorted), x)
         ELSE <<x>> \o sorted

(* the array left in the order it was given *)
SortByDate_unsorted(s) == s

RECURSIVE SortByDate(_)
SortByDate(s) ==
    IF s = <<>> THEN <<>>
    ELSE InsertByDate(SortByDate(SubSeq(s, 1, Len(s) - 1)), s[Len(s)])

----------------------------------------------------------------------------
(* Optional fields: (x.f || 0) *)

profitOf(inv) == IF "profit" \in DOMAIN inv THEN inv.profit ELSE 0
cogsOf(inv) == IF "cogs" \in DOMAIN inv THEN inv.cogs ELSE 0
totalRevenueOf(batch) ==
    IF "totalRevenue" \in DOMAIN batch THEN batch.totalRevenue ELSE 0

----------------------------------------------------------------------------
(* Derived values of App (useMemo) *)

(* invoices.find(inv => inv.id === batch.id) ? party matches : false *)
batchMatchesSearch(batch, invs, query) ==
    \E k \in 1..Len(invs) :
        /\ invs[k].id = batch.id
        /\ \A j \in 1..(k - 1) : invs[j].id # batch.id
        /\ includes(toLowerCase(invs[k].partyName), query)

searchFilteredInventory(batches, invs, q) ==
    LET query == toLowerCase(q)
    IN  IF query = <<>> THEN batches
        ELSE SelectSeq(batches, LAMBDA b : batchMatchesSearch(b, invs, query))

RECURSIVE SumRemaining(_)
SumRemaining(batches) ==
    IF batches = <<>> THEN 0
    ELSE Head(batches).remainingQuantity + SumRemaining(Tail(batches))

RECURSIVE SumRemainingCost(_)
SumRemainingCost(batches) ==
    IF batches = <<>> THEN 0
    ELSE Head(batches).remainingQuantity * Head(batches).costPerGram
         + SumRemainingCost(Tail(batches))

currentStockOf(batches, invs, q) ==
    SumRemaining(searchFilteredInventory(batches, invs, q))

fifoValueOf(batches, invs, q) ==
    SumRemainingCost(searchFilteredInventory(batches, invs, q))

currentStock == currentStockOf(inventory, invoices, searchQuery)
fifoValue == fifoValueOf(inventory, invoices, searchQuery)

(* invoices filtered by the date range and the search text *)
filteredInvoices(invs, range, q) ==
    LET query == toLowerCase(q)
    IN  SelectSeq(invs,
                  LAMBDA inv :
                      /\ inv.date >= range.start /\ inv.date <= range.end
                      /\ \/ query = <<>>
                         \/ includes(toLowerCase(inv.partyName), query))

----------------------------------------------------------------------------
(* utils.ts: the valuation replay *)

(* while (remainingToSell > 0.000001 && batches.length > 0) { ... } *)
RECURSIVE consumeFront(_, _)
consumeFront(batches, remainingToSell) ==
    IF remainingToSell * ReplayEpsilonInverse > 1 /\ batches # <<>>
    THEN LET currentBatch == Head(batches)
         IN  IF currentBatch.quantity > remainingToSell
             THEN consumeFront(
                      <<[currentBatch EXCEPT !.quantity = @ - remainingToSell]>>
                          \o Tail(batches),
                      0)
             ELSE consumeFront(Tail(batches),
                               remainingToSell - currentBatch.quantity)
    ELSE batches

(* for (const inv of relevantInvoices) { ... } *)
RECURSIVE replayBatches(_, _)
replayBatches(relevantInvoices, batches) ==
    IF relevantInvoices = <<>> THEN batches
    ELSE LET inv == Head(relevantInvoices)
         IN  IF inv.type = "PURCHASE"
             THEN replayBatches(
                      Tail(relevantInvoices),
                      Append(batches, [quantity |-> inv.quantityGrams,
                                       cost |-> inv.ratePerGram]))
             ELSE replayBatches(Tail(relevantInvoices),
                                consumeFront(batches, inv.quantityGrams))

RECURSIVE SumBatchValue(_)
SumBatchValue(batches) ==
    IF batches = <<>> THEN 0
    ELSE Head(batches).quantity * Head(batches).cost
         + SumBatchValue(Tail(batches))

(* every transaction replayed, whatever its date *)
relevantInvoicesOf_all(invs, targetDate) == SortByDate(invs)

(* filter() builds a new array, which sort() then orders in place: the     *)
(* caller's array is left as it was                                        *)
relevantInvoicesOf(invs, targetDate) ==
    SortByDate(SelectSeq(invs, LAMBDA inv : inv.date <= targetDate))

(* the caller's array itself sorted, before the filter copies it *)
calculateInventoryValueOnDate_inPlace(invs, targetDate) ==
    LET sorted == SortByDate(invs)
    IN  [result |-> SumBatchValue(
                        replayBatches(
                            SelectSeq(sorted,
                                      LAMBDA inv : inv.date <= targetDate),
                            <<>>)),
         invoices |-> sorted]

(* result: the number returned; invoices: the caller's array after the call *)
calculateInventoryValueOnDate(invs, targetDate) ==
    [result |-> SumBatchValue(
                    replayBatches(relevantInvoicesOf(invs, targetDate), <<>>)),
     invoices |-> invs]

RECURSIVE SumCogs(_)
SumCogs(sales) ==
    IF sales = <<>> THEN 0 ELSE cogsOf(Head(sales)) + SumCogs(Tail(sales))

(* Ratios are kept as fractions [num, den] with den > 0                    *)
Ratio(n, d) == [num |-> n, den |-> d]

(* Math.max(1, (end.getTime() - start.getTime()) / (1000 * 3600 * 24)) *)
daysInPeriod(startDate, endDate) ==
    IF endDate - startDate > 1 THEN endDate - startDate ELSE 1

(* the two quotients taken without looking at their denominators: 0 / 0    *)
(* is kept as the fraction it is                                           *)
calculateTurnoverStats_unguarded(invs, startDate, endDate) ==
    LET periodInvoices ==
            SelectSeq(invs, LAMBDA i : i.date >= startDate /\ i.date <= endDate)
        sales == SelectSeq(periodInvoices, LAMBDA i : i.type = "SALE")
        totalCOGS == SumCogs(sales)
        first == calculateInventoryValueOnDate(invs, startDate)
        second == calculateInventoryValueOnDate(first.invoices, endDate)
        startInventoryVal == first.result
        endInventoryVal == second.result
        inventoryValueSum == startInventoryVal + endInventoryVal
        turnoverRatio == Ratio(2 * totalCOGS, inventoryValueSum)
        avgDaysToSell ==
            Ratio(daysInPeriod(startDate, endDate) * turnoverRatio.den,
                  turnoverRatio.num)
    IN  [turnoverRatio |-> turnoverRatio,
         avgDaysToSell |-> avgDaysToSell,
         inventoryValueSum |-> inventoryValueSum,
         startInventoryVal |-> startInventoryVal,
         endInventoryVal |-> endInventoryVal,
         totalCOGS |-> totalCOGS,
         invoices |-> second.invoices]

(* The two replays run one after the other on the same array.              *)
(* avgInventoryValue = inventoryValueSum / 2                               *)
calculateTurnoverStats(invs, startDate, endDate) ==
    LET periodInvoices ==
            SelectSeq(invs, LAMBDA i : i.date >= startDate /\ i.date <= endDate)
        sales == SelectSeq(periodInvoices, LAMBDA i : i.type = "SALE")
        totalCOGS == SumCogs(sales)
        first == calculateInventoryValueOnDate(invs, startDate)
        second == calculateInventoryValueOnDate(first.invoices, endDate)
        startInventoryVal == first.result
        endInventoryVal == second.result
        inventoryValueSum == startInventoryVal + endInventoryVal
        turnoverRatio ==
            IF inventoryValueSum > 0
            THEN Ratio(2 * totalCOGS, inventoryValueSum)
            ELSE Ratio(0, 1)
        avgDaysToSell ==
            IF turnoverRatio.num > 0
            THEN Ratio(daysInPeriod(startDate, endDate) * turnoverRatio.den,
                       turnoverRatio.num)
            ELSE Ratio(0, 1)
    IN  [turnoverRatio |-> turnoverRatio,
         avgDaysToSell |-> avgDaysToSell,
         inventoryValueSum |-> inventoryValueSum,
         startInventoryVal |-> startInventoryVal,
         endInventoryVal |-> endInventoryVal,
         totalCOGS |-> totalCOGS,
         invoices |-> second.invoices]

(* utils.ts: stock aging.  now is the clock: its day, and whether the time  *)
(* of day is past 00:00 UTC, the time a lot's date stands for.              *)
(* Math.ceil(Math.abs(now - batchDate) / one day)                            *)
diffDays(now, date) ==
    IF date <= now.day
    THEN (now.day - date) + (IF now.partial THEN 1 ELSE 0)
    ELSE date - now.day

agingBucket(days) ==
    IF days <= 7 THEN "0-7"
    ELSE IF days <= 15 THEN "8-15"
    ELSE IF days <= 30 THEN "16-30"
    ELSE "30+"

(* inventory.forEach(batch => { ... }) *)
RECURSIVE agingFold(_, _, _)
agingFold(batches, now, acc) ==
    IF batches = <<>> THEN acc
    ELSE LET batch == Head(batches)
             days == diffDays(now, batch.date)
         IN  IF batch.remainingQuantity <= 0
             THEN agingFold(Tail(batches), now, acc)
             ELSE agingFold(
                      Tail(batches), now,
                      [buckets |->
                           [acc.buckets EXCEPT ![agingBucket(days)] =
                                                   @ + batch.remainingQuantity],
                       totalStock |-> acc.totalStock + batch.remainingQuantity,
                       totalDaysWeighted |->
                           acc.totalDaysWeighted
                               + days * batch.remainingQuantity])

calculateStockAging(batches, now) ==
    LET acc == agingFold(batches, now,
                         [buckets |-> [k \in {"0-7", "8-15", "16-30", "30+"}
                                           |-> 0],
                          totalStock |-> 0, totalDaysWeighted |-> 0])
    IN  [buckets |-> acc.buckets,
         weightedAvgDays |->
             IF acc.totalStock > 0
             THEN Ratio(acc.totalDaysWeighted, acc.totalStock)
             ELSE Ratio(0, 1)]

(* utils.ts: supplier statistics.  stats is the object keyed by party name, *)
(* kept as the sequence of its entries in the order the keys were added.    *)
RECURSIVE supplierFold(_, _)
supplierFold(purchases, stats) ==
    IF purchases = <<>> THEN stats
    ELSE LET inv == Head(purchases)
             at == { k \in 1..Len(stats) : stats[k].name = inv.partyName }
             opened ==
                 IF at = {}
                 THEN Append(stats, [name |-> inv.partyName, totalGrams |-> 0,
                                     totalCost |-> 0, count |-> 0,
                                     rates |-> <<>>])
                 ELSE stats
             k == CHOOSE n \in 1..Len(opened) : opened[n].name = inv.partyName
         IN  supplierFold(
                 Tail(purchases),
                 [opened EXCEPT
                     ![k] = [name |-> @.name,
                             totalGrams |-> @.totalGrams + inv.quantityGrams,
                             totalCost |-> @.totalCost
                                 + inv.quantityGrams * inv.ratePerGram,
                             count |-> @.count + 1,
                             rates |-> Append(@.rates, inv.ratePerGram)]])

(* Math.min(...rates) and Math.max(...rates) of a list that is not empty *)
MinOf(rates) ==
    CHOOSE r \in {rates[k] : k \in 1..Len(rates)} :
        \A k \in 1..Len(rates) : r <= rates[k]
MaxOf(rates) ==
    CHOOSE r \in {rates[k] : k \in 1..Len(rates)} :
        \A k \in 1..Len(rates) : r >= rates[k]

supplierStatOf(data) ==
    [name |-> data.name,
     totalGramsPurchased |-> data.totalGrams,
     avgRate |-> IF data.totalGrams > 0
                 THEN Ratio(data.totalCost, data.totalGrams)
                 ELSE Ratio(0, 1),
     minRate |-> MinOf(data.rates),
     maxRate |-> MaxOf(data.rates),
     volatility |-> MaxOf(data.rates) - MinOf(data.rates),
     txCount |-> data.count]

(* sort((a, b) => b.totalGramsPurchased - a.totalGramsPurchased): stable *)
RECURSIVE InsertByVolume(_, _)
InsertByVolume(sorted, x) ==
    IF sorted = <<>> THEN <<x>>
    ELSE IF Head(sorted).totalGramsPurchased >= x.totalGramsPurchased
         THEN <<Head(sorted)>> \o InsertByVolume(Tail(sorted), x)
         ELSE <<x>> \o sorted

RECURSIVE SortByVolume(_)
SortByVolume(s) ==
    IF s = <<>> THEN <<>>
    ELSE InsertByVolume(SortByVolume(SubSeq(s, 1, Len(s) - 1)), s[Len(s)])

calculateSupplierStats(invs) ==
    LET stats == supplierFold(
                     SelectSeq(invs, LAMBDA i : i.type = "PURCHASE"), <<>>)
    IN  SortByVolume([k \in 1..Len(stats) |-> supplierStatOf(stats[k])])

----------------------------------------------------------------------------
(* App.handleAddInvoice *)

(* the cost of goods taken at the sale's rate instead of the lot's cost *)
RECURSIVE allocate_saleRate(_, _, _, _, _)
allocate_saleRate(newInventory, i, remainingToSell, totalCOGS, invoice) ==
    IF i > Len(newInventory) \/ remainingToSell <= 0
    THEN [newInventory |-> newInventory,
          remainingToSell |-> remainingToSell,
          totalCOGS |-> totalCOGS]
    ELSE LET batch == newInventory[i]
         IN  IF batch.remainingQuantity > 0
             THEN LET take == Min(batch.remainingQuantity, remainingToSell)
                      credited ==
                          SetField(batch, "totalRevenue",
                                   totalRevenueOf(batch)
                                       + take * invoice.ratePerGram)
                      drained ==
                          [credited EXCEPT !.remainingQuantity = @ - take]
                      closed ==
                          IF drained.remainingQuantity < LotCloseEpsilon
                          THEN SetField(
                                   [drained EXCEPT !.remainingQuantity = 0],
                                   "closedDate", invoice.date)
                          ELSE drained
                  IN  allocate_saleRate(
                          [newInventory EXCEPT ![i] = closed], i + 1,
                          remainingToSell - take,
                          totalCOGS + take * invoice.ratePerGram, invoice)
             ELSE allocate_saleRate(newInventory, i + 1, remainingToSell,
                                    totalCOGS, invoice)

(* the walk with every take priced at the cost of the first lot *)
RECURSIVE allocate_firstCost(_, _, _, _, _)
allocate_firstCost(newInventory, i, remainingToSell, totalCOGS, invoice) ==
    IF i > Len(newInventory) \/ remainingToSell <= 0
    THEN [newInventory |-> newInventory,
          remainingToSell |-> remainingToSell,
          totalCOGS |-> totalCOGS]
    ELSE LET batch == newInventory[i]
         IN  IF batch.remainingQuantity > 0
             THEN LET take == Min(batch.remainingQuantity, remainingToSell)
                      credited ==
                          SetField(batch, "totalRevenue",
                                   totalRevenueOf(batch)
                                       + take * invoice.ratePerGram)
                      drained ==
                          [credited EXCEPT !.remainingQuantity = @ - take]
                      closed ==
                          IF drained.remainingQuantity < LotCloseEpsilon
                          THEN SetField(
                                   [drained EXCEPT !.remainingQuantity = 0],
                                   "closedDate", invoice.date)
                          ELSE drained
                  IN  allocate_firstCost(
                          [newInventory EXCEPT ![i] = closed], i + 1,
                          remainingToSell - take,
                          totalCOGS + take * newInventory[1].costPerGram, invoice)
             ELSE allocate_firstCost(newInventory, i + 1, remainingToSell,
                                    totalCOGS, invoice)

(* for (const batch of newInventory) { ... } on the working copy *)
RECURSIVE allocate(_, _, _, _, _)
allocate(newInventory, i, remainingToSell, totalCOGS, invoice) ==
    IF i > Len(newInventory) \/ remainingToSell <= 0
    THEN [newInventory |-> newInventory,
          remainingToSell |-> remainingToSell,
          totalCOGS |-> totalCOGS]
    ELSE LET batch == newInventory[i]
         IN  IF batch.remainingQuantity > 0
             THEN LET take == Min(batch.remainingQuantity, remainingToSell)
                      credited ==
                          SetField(batch, "totalRevenue",
                                   totalRevenueOf(batch)
                                       + take * invoice.ratePerGram)
                      drained ==
                          [credited EXCEPT !.remainingQuantity = @ - take]
                      closed ==
                          IF drained.remainingQuantity < LotCloseEpsilon
                          THEN SetField(
                                   [drained EXCEPT !.remainingQuantity = 0],
                                   "closedDate", invoice.date)
                          ELSE drained
                  IN  allocate([newInventory EXCEPT ![i] = closed], i + 1,
                               remainingToSell - take,
                               totalCOGS + take * batch.costPerGram, invoice)
             ELSE allocate(newInventory, i + 1, remainingToSell, totalCOGS,
                           invoice)

(* a lot opened with nothing left in it *)
newBatchOf_empty(invoice) ==
    [id |-> invoice.id, date |-> invoice.date,
     originalQuantity |-> invoice.quantityGrams,
     remainingQuantity |-> 0,
     costPerGram |-> invoice.ratePerGram]

newBatchOf(invoice) ==
    [id |-> invoice.id, date |-> invoice.date,
     originalQuantity |-> invoice.quantityGrams,
     remainingQuantity |-> invoice.quantityGrams,
     costPerGram |-> invoice.ratePerGram]

(* a sale that stamps its cost of goods on the earlier sales as well *)
handleAddInvoice_restamp(invoice, invs, batches) ==
    IF invoice.type = "PURCHASE"
    THEN [invoices |-> <<invoice>> \o invs,
          inventory |-> SortByDate(Append(batches, newBatchOf(invoice))),
          toast |-> "Purchase recorded & Inventory Updated"]
    ELSE LET done == allocate(batches, 1, invoice.quantityGrams, 0, invoice)
             profit == (invoice.quantityGrams * invoice.ratePerGram)
                           - done.totalCOGS
             stamped == SetField(SetField(invoice, "cogs", done.totalCOGS),
                                 "profit", profit)
             restamped ==
                 [k \in 1..Len(invs) |->
                     IF invs[k].type = "SALE"
                     THEN SetField(invs[k], "cogs", done.totalCOGS)
                     ELSE invs[k]]
         IN  IF done.remainingToSell > ShortfallEpsilon
             THEN [invoices |-> invs, inventory |-> batches,
                   toast |-> "FIFO Mismatch - Check Stock"]
             ELSE [invoices |-> <<stamped>> \o restamped,
                   inventory |-> done.newInventory,
                   toast |-> "Sale recorded. FIFO Logic Applied."]

(* a sale that removes the lots it has closed *)
handleAddInvoice_dropClosed(invoice, invs, batches) ==
    IF invoice.type = "PURCHASE"
    THEN [invoices |-> <<invoice>> \o invs,
          inventory |-> SortByDate(Append(batches, newBatchOf(invoice))),
          toast |-> "Purchase recorded & Inventory Updated"]
    ELSE LET done == allocate(batches, 1, invoice.quantityGrams, 0, invoice)
             profit == (invoice.quantityGrams * invoice.ratePerGram)
                           - done.totalCOGS
             stamped == SetField(SetField(invoice, "cogs", done.totalCOGS),
                                 "profit", profit)
         IN  IF done.remainingToSell > ShortfallEpsilon
             THEN [invoices |-> invs, inventory |-> batches,
                   toast |-> "FIFO Mismatch - Check Stock"]
             ELSE [invoices |-> <<stamped>> \o invs,
                   inventory |->
                       SelectSeq(done.newInventory,
                                 LAMBDA b : ~("closedDate" \in DOMAIN b)),
                   toast |-> "Sale recorded. FIFO Logic Applied."]

(* The collections and the toast the handler leaves behind *)
handleAddInvoice(invoice, invs, batches) ==
    IF invoice.type = "PURCHASE"
    THEN [invoices |-> <<invoice>> \o invs,
          inventory |-> SortByDate(Append(batches, newBatchOf(invoice))),
          toast |-> "Purchase recorded & Inventory Updated"]
    ELSE LET done == allocate(batches, 1, invoice.quantityGrams, 0, invoice)
             profit == (invoice.quantityGrams * invoice.ratePerGram)
                           - done.totalCOGS
             stamped == SetField(SetField(invoice, "cogs", done.totalCOGS),
                                 "profit", profit)
         IN  IF done.remainingToSell > ShortfallEpsilon
             THEN [invoices |-> invs, inventory |-> batches,
                   toast |-> "FIFO Mismatch - Check Stock"]
             ELSE [invoices |-> <<stamped>> \o invs,
                   inventory |-> done.newInventory,
                   toast |-> "Sale recorded. FIFO Logic Applied."]

----------------------------------------------------------------------------
(* InvoiceForm.handleSubmit *)

(* parseFloat(x) || 0 *)
numberOrZero(txt) == IF txt = <<>> THEN 0 ELSE parseFloat(txt)

calculateTotals(form) ==
    LET qty == numberOrZero(form.quantityGrams)
        rate == numberOrZero(form.ratePerGram)
        gst == numberOrZero(form.gstRate)
        taxable == qty * rate
        gstAmt == (taxable * gst) \div 100
    IN  [taxable |-> taxable, gstAmt |-> gstAmt, total |-> taxable + gstAmt]

(* the checks of the form without the one on the lock date *)
formError_noLock(form, lock, stock) ==
    IF form.partyName = <<>> \/ form.quantityGrams = <<>>
          \/ form.ratePerGram = <<>>
    THEN "Fill all required fields."
    ELSE IF form.type = "SALE" /\ parseFloat(form.quantityGrams) > stock
    THEN "Insufficient Inventory!"
    ELSE ""

(* The message set by the first check that fails, "" when all pass *)
formError(form, lock, stock) ==
    IF lock # <<>> /\ form.date <= lock[1]
    THEN "Date Locked!"
    ELSE IF form.partyName = <<>> \/ form.quantityGrams = <<>>
            \/ form.ratePerGram = <<>>
    THEN "Fill all required fields."
    ELSE IF form.type = "SALE" /\ parseFloat(form.quantityGrams) > stock
    THEN "Insufficient Inventory!"
    ELSE ""

invoiceOf(form, id) ==
    LET totals == calculateTotals(form)
    IN  [id |-> id, date |-> form.date, type |-> form.type,
         partyName |-> form.partyName,
         quantityGrams |-> parseFloat(form.quantityGrams),
         ratePerGram |-> parseFloat(form.ratePerGram),
         gstRate |-> parseFloatOrNaN(form.gstRate),
         gstAmount |-> totals.gstAmt, taxableAmount |-> totals.taxable,
         totalAmount |-> totals.total]

----------------------------------------------------------------------------
(* Rendering after a state change: the memo and the save effect *)

(* storeService: a stored text is represented by the value JSON.parse      *)
(* gives for it.  JSON.stringify writes NaN as null, leaves out the fields *)
(* that are undefined and writes finite numbers and strings as they are.   *)
jsonNumber(v) == IF v = NaN THEN null ELSE v

stringifyInvoice(inv) == [inv EXCEPT !.gstRate = jsonNumber(@)]

saveInvoices(invs) == [k \in 1..Len(invs) |-> stringifyInvoice(invs[k])]
saveInventory(batches) == batches

loadInvoices(store) == store.invoices
loadInventory(store) == store.inventory

(* the save effect: saveInvoices(invoices); saveInventory(inventory) *)
savedSnapshot(invs, batches) ==
    [invoices |-> saveInvoices(invs), inventory |-> saveInventory(batches)]

(* the memo keeps the statistics, not the array they were computed from *)
turnoverMemo(stats) == [f \in (DOMAIN stats) \ {"invoices"} |-> stats[f]]

Render(invs, batches, range) ==
    \E stats \in {calculateTurnoverStats(invs, range.start, range.end)} :
        /\ invoices' = stats.invoices
        /\ inventory' = batches
        /\ dateRange' = range
        /\ turnoverStats' = turnoverMemo(stats)
        /\ storage' = savedSnapshot(stats.invoices, batches)

----------------------------------------------------------------------------
(* Inputs *)

Text(n) == <<n>>

(* supplier, quantity, rate and GST field of the purchases that are entered *)
PurchaseOffers ==
    { [partyName |-> <<"A", "b">>, quantityGrams |-> 30, ratePerGram |-> 100,
       gstRate |-> Text(DefaultGstRate)],
      [partyName |-> <<"c">>, quantityGrams |-> 21, ratePerGram |-> 200,
       gstRate |-> Text(DefaultGstRate)],
      [partyName |-> <<"c">>, quantityGrams |-> -30, ratePerGram |-> 200,
       gstRate |-> Text(DefaultGstRate)],
      [partyName |-> <<"c">>, quantityGrams |-> 21, ratePerGram |-> 200,
       gstRate |-> <<>>] }

(* quantity and rate of the sales that are entered *)
SaleOffers ==
    { [quantityGrams |-> q, ratePerGram |-> 300] : q \in {-30, 10, 22, 29, 51} }
        \cup { [quantityGrams |-> 10, ratePerGram |-> -300] }

PurchaseForms ==
    { [type |-> "PURCHASE", date |-> d, partyName |-> o.partyName,
       quantityGrams |-> Text(o.quantityGrams),
       ratePerGram |-> Text(o.ratePerGram),
       gstRate |-> o.gstRate] : d \in Dates, o \in PurchaseOffers }

SaleForms ==
    { [type |-> "SALE", date |-> d, partyName |-> <<"c">>,
       quantityGrams |-> Text(o.quantityGrams),
       ratePerGram |-> Text(o.ratePerGram),
       gstRate |-> Text(DefaultGstRate)] : d \in Dates, o \in SaleOffers }

(* a form left incomplete *)
BlankForms ==
    { [type |-> "PURCHASE", date |-> 1, partyName |-> <<"c">>,
       quantityGrams |-> <<>>, ratePerGram |-> Text(100),
       gstRate |-> Text(DefaultGstRate)] }

(* a purchase of nothing: the text "0" is not an empty field *)
ZeroQuantityForms ==
    { [type |-> "PURCHASE", date |-> 1, partyName |-> <<"c">>,
       quantityGrams |-> Text(0), ratePerGram |-> Text(200),
       gstRate |-> Text(DefaultGstRate)] }

Forms == PurchaseForms \cup SaleForms \cup BlankForms \cup ZeroQuantityForms

SearchQueries == {<<>>, <<"a", "B">>}
NoLock == <<>>
(* the ranges picked: the two days, or the second day alone *)
DateRanges == { InitialRange, [start |-> 2, end |-> 2] }

----------------------------------------------------------------------------
(* State machine *)

(* the effects of the mount have run and no setState is queued *)
Ready == [phase |-> "ready", queued |-> <<>>]

(* The state after start-up on an empty store.  lock is the value found   *)
(* under 'bullion_lock_date': nothing in the application writes that key,  *)
(* so it is null unless it was configured from outside.                    *)
InitWith(lock) ==
    /\ invoices = <<>>
    /\ inventory = <<>>
    /\ searchQuery = <<>>
    /\ dateRange = InitialRange
    /\ lockDate = lock
    /\ turnoverStats = turnoverMemo(calculateTurnoverStats(<<>>, InitialRange.start,
                                                        InitialRange.end))
    /\ error = ""
    /\ toast = ""
    /\ storage = savedSnapshot(<<>>, <<>>)
    /\ nextId = 1
    /\ mount = Ready

Init == InitWith(NoLock)

(* the stock check sets its message and goes on to onAdd all the same *)
handleSubmit_noReturn(form) ==
    /\ mount = Ready
    /\ nextId <= MaxInvoices
    /\ LET err == formError(form, lockDate, currentStock)
       IN  /\ error' = err
           /\ IF err \in {"", "Insufficient Inventory!"}
              THEN \E added \in {handleAddInvoice(invoiceOf(form, nextId),
                                                  invoices, inventory)} :
                       /\ nextId' = nextId + 1
                       /\ toast' = added.toast
                       /\ IF added.invoices = invoices
                          THEN UNCHANGED <<invoices, inventory, dateRange,
                                           turnoverStats, storage>>
                          ELSE Render(added.invoices, added.inventory,
                                      dateRange)
              ELSE UNCHANGED <<invoices, inventory, dateRange, turnoverStats,
                               storage, nextId, toast>>
    /\ UNCHANGED <<searchQuery, lockDate, mount>>

(* InvoiceForm.handleSubmit, with App.handleAddInvoice as its onAdd *)
handleSubmit(form) ==
    /\ mount = Ready
    /\ nextId <= MaxInvoices
    /\ LET err == formError(form, lockDate, currentStock)
       IN  /\ error' = err
           /\ IF err = ""
              THEN \E added \in {handleAddInvoice(invoiceOf(form, nextId),
                                                  invoices, inventory)} :
                       /\ nextId' = nextId + 1
                       /\ toast' = added.toast
                       /\ IF added.invoices = invoices
                          THEN UNCHANGED <<invoices, inventory, dateRange,
                                           turnoverStats, storage>>
                          ELSE Render(added.invoices, added.inventory,
                                      dateRange)
              ELSE UNCHANGED <<invoices, inventory, dateRange, turnoverStats,
                               storage, nextId, toast>>
    /\ UNCHANGED <<searchQuery, lockDate, mount>>

(* Layout's search box: onSearch = setSearchQuery *)
setSearchQuery(q) ==
    /\ mount = Ready
    /\ q # searchQuery
    /\ searchQuery' = q
    /\ UNCHANGED <<invoices, inventory, dateRange, lockDate, turnoverStats,
                   error, toast, storage, nextId, mount>>

(* DateRangePicker's Done: onChange = setDateRange *)
setDateRange(range) ==
    /\ mount = Ready
    /\ range # dateRange
    /\ range.start <= range.end
    /\ Render(invoices, inventory, range)
    /\ UNCHANGED <<searchQuery, lockDate, error, toast, nextId, mount>>

(* App.handleReset, confirmed: resetData() removes the two stored texts and *)
(* the save effect that follows the two setState calls writes them anew    *)
handleReset ==
    /\ mount = Ready
    /\ Render(<<>>, <<>>, dateRange)
    /\ toast' = "System Reset Complete"
    /\ UNCHANGED <<searchQuery, lockDate, error, nextId, mount>>

Next ==
    \/ \E form \in Forms : handleSubmit(form)
    \/ \E q \in SearchQueries : setSearchQuery(q)
    \/ \E range \in DateRanges : setDateRange(range)
    \/ handleReset

Spec == Init /\ [][Next]_vars

----------------------------------------------------------------------------
(* Vocabulary of the properties *)

RECURSIVE SumOriginal(_)
SumOriginal(batches) ==
    IF batches = <<>> THEN 0
    ELSE Head(batches).originalQuantity + SumOriginal(Tail(batches))

RECURSIVE SumSold(_)
SumSold(invs) ==
    IF invs = <<>> THEN 0
    ELSE (IF Head(invs).type = "SALE" THEN Head(invs).quantityGrams ELSE 0)
         + SumSold(Tail(invs))

Abs(x) == IF x < 0 THEN -x ELSE x

SubmitStep == \E form \in Forms : handleSubmit(form)

(* a step that puts a new transaction of the given type at the head *)
Committed(type) ==
    /\ Len(invoices') = Len(invoices) + 1
    /\ invoices'[1].type = type

SaleCommitted == Committed("SALE")
PurchaseCommitted == Committed("PURCHASE")

(* a submission rejected for lack of stock, by the form or by the allocator *)
SaleRejectedForStock ==
    /\ SubmitStep
    /\ \/ error' = "Insufficient Inventory!"
       \/ nextId' # nextId /\ toast' = "FIFO Mismatch - Check Stock"

----------------------------------------------------------------------------
(* C1 - FIFO order: a committed sale never decrements a lot while a lot     *)
(* with a strictly earlier date still has more than the closing tolerance   *)
(* left after the sale.                                                     *)
FifoOrderStep ==
    SaleCommitted =>
        /\ Len(inventory') = Len(inventory)
        /\ \A i, j \in 1..Len(inventory) :
               ( /\ inventory'[i].id = inventory[i].id
                 /\ ( /\ inventory'[i].remainingQuantity
                             < inventory[i].remainingQuantity
                      /\ inventory[j].date < inventory[i].date
                      => inventory'[j].remainingQuantity <= LotCloseEpsilon ) )

C1_FifoOrder == [][FifoOrderStep]_vars

(* a sale has closed the lot of day 1 and gone on into the lot of day 2 *)
C1_Witness ==
    /\ invoices # <<>> /\ Head(invoices).type = "SALE"
    /\ Len(inventory) = 2
    /\ inventory[1].date < inventory[2].date
    /\ "closedDate" \in DOMAIN inventory[1]
    /\ totalRevenueOf(inventory[2]) > 0
    /\ inventory[2].remainingQuantity > LotCloseEpsilon

(* C2 - Conservation: sum of originalQuantity minus the quantity of all     *)
(* committed sales equals the sum of remainingQuantity, within epsilon.     *)
C2_Conservation ==
    Abs(SumOriginal(inventory) - SumSold(invoices) - SumRemaining(inventory))
        <= LotCloseEpsilon

(* C3 - Atomicity: a sale rejected for insufficient stock leaves the lots,  *)
(* the transactions and the saved snapshot exactly as they were.            *)
AtomicRejection ==
    SaleRejectedForStock =>
        /\ invoices' = invoices
        /\ inventory' = inventory
        /\ storage' = storage

C3_Atomicity == [][AtomicRejection]_vars

(* a sale was refused while a partly drained lot was on hand *)
C3_Witness ==
    /\ error = "Insufficient Inventory!"
    /\ \E i \in 1..Len(inventory) :
           /\ inventory[i].remainingQuantity > 0
           /\ inventory[i].remainingQuantity < inventory[i].originalQuantity

(* C4 - Insufficient-stock rejection: no sale is committed whose quantity   *)
(* exceeds the total remainingQuantity of all lots at that time by more     *)
(* than the shortfall tolerance; on an empty inventory no sale is          *)
(* committed.                                                               *)
NoOversellStep ==
    SaleCommitted =>
        /\ invoices'[1].quantityGrams
               <= SumRemaining(inventory) + ShortfallEpsilon
        /\ inventory # <<>>

C4_NoOversell == [][NoOversellStep]_vars

(* C5 - Replay consistency: with no transaction dated after the cutoff,     *)
(* the replayed value equals the sum of remainingQuantity * costPerGram     *)
(* over the live lots.                                                      *)
C5_ReplayConsistency ==
    \A today \in Dates :
        (\A k \in 1..Len(invoices) : invoices[k].date <= today)
            => calculateInventoryValueOnDate(invoices, today).result
                   = SumRemainingCost(inventory)

(* C6 - The replay is free of side effects and repeatable: a change of the  *)
(* report range, which only replays, leaves transactions and lots as they   *)
(* were, a commit leaves the earlier transactions as they were, and the     *)
(* values the turnover statistics got from the two consecutive replays are  *)
(* the values a replay of the stored transactions gives for each cutoff.    *)
ReplayPureStep ==
    /\ dateRange' # dateRange
           => invoices' = invoices /\ inventory' = inventory
    /\ Len(invoices') = Len(invoices) + 1 => Tail(invoices') = invoices
    /\ turnoverStats'.startInventoryVal
           = calculateInventoryValueOnDate(invoices', dateRange'.start).result
    /\ turnoverStats'.endInventoryVal
           = calculateInventoryValueOnDate(invoices', dateRange'.end).result

C6_ReplayPure == [][ReplayPureStep]_vars

(* the two replays of one turnover computation ran with different cutoffs *)
(* over purchases and a sale, and returned different values                *)
C6_Witness ==
    /\ dateRange.start < dateRange.end
    /\ Len(invoices) >= 2
    /\ \E k \in 1..Len(invoices) : invoices[k].type = "SALE"
    /\ turnoverStats.startInventoryVal > 0
    /\ turnoverStats.startInventoryVal # turnoverStats.endInventoryVal

(* C7 - Historical valuation is stable: recording a transaction dated       *)
(* strictly after a cutoff leaves the replayed value at that cutoff as it   *)
(* was.                                                                     *)
HistoryStableStep ==
    \A cutoff \in Dates :
        Len(invoices') = Len(invoices) + 1 /\ invoices'[1].date > cutoff
            => calculateInventoryValueOnDate(invoices', cutoff).result
                   = calculateInventoryValueOnDate(invoices, cutoff).result

C7_HistoryStable == [][HistoryStableStep]_vars

(* a sale of day 2 was recorded over stock that day 1 values above zero *)
C7_Witness ==
    /\ invoices # <<>>
    /\ Head(invoices).type = "SALE" /\ Head(invoices).date = 2
    /\ Head(invoices).quantityGrams > 0
    /\ calculateInventoryValueOnDate(invoices, 1).result > 0

(* C8 - Lot bounds: every lot has 0 <= remainingQuantity <=                 *)
(* originalQuantity, within epsilon.                                        *)
C8_LotBounds ==
    \A i \in 1..Len(inventory) :
        /\ inventory[i].remainingQuantity >= -LotCloseEpsilon
        /\ inventory[i].remainingQuantity
               <= inventory[i].originalQuantity + LotCloseEpsilon

(* C9 - Purchase postcondition and frame: a purchase that passes the form   *)
(* adds one transaction and one lot with the transaction's id and date,     *)
(* remainingQuantity = originalQuantity = quantity, costPerGram = rate,     *)
(* and leaves every earlier lot and transaction as it was.                  *)
PurchaseStep ==
    \A form \in PurchaseForms :
        handleSubmit(form) /\ error' = ""
            => LET tx == invoices'[1]
                   lots == inventory'
                   mine == {i \in 1..Len(lots) : lots[i].id = tx.id}
               IN  /\ Len(invoices') = Len(invoices) + 1
                   /\ Tail(invoices') = invoices
                   /\ tx.type = "PURCHASE" /\ tx.date = form.date
                   /\ tx.quantityGrams = parseFloat(form.quantityGrams)
                   /\ tx.ratePerGram = parseFloat(form.ratePerGram)
                   /\ \A k \in 1..Len(invoices) : invoices[k].id # tx.id
                   /\ Len(lots) = Len(inventory) + 1
                   /\ Cardinality(mine) = 1
                   /\ \A i \in mine :
                          lots[i] = [id |-> tx.id, date |-> tx.date,
                                     originalQuantity |-> tx.quantityGrams,
                                     remainingQuantity |-> tx.quantityGrams,
                                     costPerGram |-> tx.ratePerGram]
                   /\ SelectSeq(lots, LAMBDA b : b.id # tx.id) = inventory

C9_PurchasePost == [][PurchaseStep]_vars

(* a purchase of day 1 was recorded after a lot of day 2 had been drawn on *)
C9_Witness ==
    /\ Len(invoices) = 3 /\ Len(inventory) = 2
    /\ Head(invoices).type = "PURCHASE"
    /\ inventory[1].id = Head(invoices).id
    /\ inventory[1].date < inventory[2].date
    /\ totalRevenueOf(inventory[2]) > 0

----------------------------------------------------------------------------
(* The worked example of the design, in the units of the model: a gram is   *)
(* 20000 units of quantity, a rate of 100 per gram is 1 per unit, so a      *)
(* rupee is 200 units of money.                                             *)

Grams(g) == g * 20000
RatePerGram(r) == r \div 100
Rupees(r) == r * 200

ExampleForm(type, day, grams, rate) ==
    [type |-> type, date |-> day, partyName |-> <<"c">>,
     quantityGrams |-> Text(Grams(grams)),
     ratePerGram |-> Text(RatePerGram(rate)),
     gstRate |-> Text(DefaultGstRate)]

ExampleForms ==
    { ExampleForm("PURCHASE", 1, 50, 6000),
      ExampleForm("PURCHASE", 3, 50, 6200),
      ExampleForm("SALE", 5, 60, 6500) }

exampleSubmit == \E form \in ExampleForms : handleSubmit(form)

SpecExamples == Init /\ [][Next \/ exampleSubmit]_vars

----------------------------------------------------------------------------
(* The FIFO prefix allocation of a quantity over the date-ordered lots,     *)
(* written in closed form: a lot gives what is still asked for once the     *)
(* lots before it have given all they hold.                                 *)

available(batch) ==
    IF batch.remainingQuantity > 0 THEN batch.remainingQuantity ELSE 0

RECURSIVE availableBefore(_, _)
availableBefore(batches, i) ==
    IF i <= 1 THEN 0
    ELSE availableBefore(batches, i - 1) + available(batches[i - 1])

prefixTake(batches, i, quantity) ==
    LET asked == quantity - availableBefore(batches, i)
    IN  IF asked <= 0 THEN 0 ELSE Min(available(batches[i]), asked)

RECURSIVE SumTakes(_, _, _)
SumTakes(batches, n, quantity) ==
    IF n = 0 THEN 0
    ELSE SumTakes(batches, n - 1, quantity) + prefixTake(batches, n, quantity)

RECURSIVE SumTakeCost(_, _, _)
SumTakeCost(batches, n, quantity) ==
    IF n = 0 THEN 0
    ELSE SumTakeCost(batches, n - 1, quantity)
         + prefixTake(batches, n, quantity) * batches[n].costPerGram

(* C10 - COGS and profit of a committed sale: cogs is the sum over the lots *)
(* of the quantity the FIFO prefix allocation takes from the lot times the  *)
(* lot's costPerGram, the takes add up to the quantity sold, profit is      *)
(* quantity * rate - cogs = taxableAmount - cogs, and every lot is left     *)
(* with what it had minus its take (closed at 0 when that falls under the   *)
(* closing tolerance).  Lots 50 g at 6000 and 50 g at 6200, selling 60 g at *)
(* 6500: cogs 362000, profit 28000, lot 1 closed, lot 2 left with 40 g.     *)
CogsStep ==
    SaleCommitted =>
        LET tx == invoices'[1]
            n == Len(inventory)
            sold == tx.quantityGrams
        IN  /\ tx.cogs = SumTakeCost(inventory, n, sold)
            /\ sold >= 0 => SumTakes(inventory, n, sold) = sold
            /\ tx.profit = sold * tx.ratePerGram - tx.cogs
            /\ tx.profit = tx.taxableAmount - tx.cogs
            /\ Len(inventory') = n
            /\ \A i \in 1..n :
                   LET take == prefixTake(inventory, i, sold)
                       left == inventory[i].remainingQuantity - take
                   IN  inventory'[i].remainingQuantity
                           = IF take > 0 /\ left < LotCloseEpsilon
                             THEN 0 ELSE left

ExampleLedger ==
    /\ Len(inventory) = 2 /\ Len(invoices) = 3
    /\ invoices[1].type = "SALE"
    /\ invoices[1].quantityGrams = Grams(60)
    /\ invoices[1].ratePerGram = RatePerGram(6500)
    /\ \A i \in 1..2 : inventory[i].originalQuantity = Grams(50)
    /\ inventory[1].costPerGram = RatePerGram(6000)
    /\ inventory[2].costPerGram = RatePerGram(6200)
    /\ inventory[1].date < inventory[2].date

ExampleResult ==
    /\ invoices[1].cogs = Rupees(362000)
    /\ invoices[1].profit = Rupees(28000)
    /\ inventory[1].remainingQuantity = 0
    /\ "closedDate" \in DOMAIN inventory[1]
    /\ inventory[1].closedDate = invoices[1].date
    /\ inventory[2].remainingQuantity = Grams(40)
    /\ ~("closedDate" \in DOMAIN inventory[2])

----------------------------------------------------------------------------
(* C11 - System-wide stock check: the stock figure a sale is checked        *)
(* against is the sum of remainingQuantity over all lots, whatever the      *)
(* search query and the date range, so a sale of no more than that sum is   *)
(* never rejected for insufficient stock.                                   *)
SystemWideStockStep ==
    \A form \in SaleForms :
        ( /\ handleSubmit(form)
          /\ parseFloat(form.quantityGrams) <= SumRemaining(inventory) )
            => error' # "Insufficient Inventory!"

C11_SystemWideStock == [][SystemWideStockStep]_vars

(* C12 - Positivity: a submission whose quantity or rate is zero or         *)
(* negative is rejected before the allocator, so it creates or changes no   *)
(* transaction and no lot.                                                  *)
PositivityStep ==
    \A form \in Forms :
        ( /\ handleSubmit(form)
          /\ \/ numberOrZero(form.quantityGrams) <= 0
             \/ numberOrZero(form.ratePerGram) <= 0 )
            => /\ invoices' = invoices
               /\ inventory' = inventory
               /\ nextId' = nextId

C12_Positivity == [][PositivityStep]_vars

----------------------------------------------------------------------------
(* The application started with a lock date found in the store: the books   *)
(* are locked through day 1.  Sales are entered with a date before the lock *)
(* date, and entries of both types with a date after it.                    *)

LockDates == {1}
BackDates == {0}

BackdatedSaleForms == { [f EXCEPT !.date = d] : f \in SaleForms, d \in BackDates }

LockedForms ==
    BackdatedSaleForms
        \cup { f \in Forms : \A lock \in LockDates : f.date > lock }

NextLocked ==
    \/ \E form \in LockedForms : handleSubmit(form)
    \/ \E q \in SearchQueries : setSearchQuery(q)
    \/ \E range \in DateRanges : setDateRange(range)
    \/ handleReset

SpecLocked == (\E lock \in LockDates : InitWith(<<lock>>)) /\ [][NextLocked]_vars

(* C13 - Lock threshold: with a lock date configured, a sale dated before   *)
(* the lock date is rejected with the lock message before the allocator     *)
(* runs, and transactions, lots and the saved snapshot are unchanged.       *)
LockedSaleStep ==
    \A form \in LockedForms :
        ( /\ handleSubmit(form)
          /\ form.type = "SALE"
          /\ lockDate # <<>>
          /\ form.date < lockDate[1] )
            => /\ error' = "Date Locked!"
               /\ invoices' = invoices
               /\ inventory' = inventory
               /\ storage' = storage
               /\ nextId' = nextId
               /\ toast' = toast

C13_LockThreshold == [][LockedSaleStep]_vars

(* a backdated sale was refused while stock that had been drawn on before   *)
(* was on hand                                                              *)
C13_Witness ==
    /\ lockDate # <<>>
    /\ error = "Date Locked!"
    /\ \E i \in 1..Len(inventory) :
           /\ inventory[i].remainingQuantity >= 10
           /\ inventory[i].remainingQuantity < inventory[i].originalQuantity

----------------------------------------------------------------------------
(* C14 - Transactions are append-only and immutable: a step either resets   *)
(* the ledger or leaves every recorded transaction in the collection with   *)
(* all its fields, cogs and profit included, as they were, adding at most   *)
(* one new transaction at the head; a rejected submission and a change of   *)
(* the report range, which replays and aggregates, add none.                *)
AppendOnlyStep ==
    \/ handleReset
    \/ /\ invoices' = invoices \/ Tail(invoices') = invoices
       /\ error' # "" => invoices' = invoices
       /\ dateRange' # dateRange => invoices' = invoices

C14_AppendOnly == [][AppendOnlyStep]_vars

(* a sale with its cogs and profit stamped lies under a later sale that     *)
(* drew on the same lot                                                     *)
C14_Witness ==
    /\ Len(invoices) = 3
    /\ invoices[1].type = "SALE" /\ invoices[1].quantityGrams > 0
    /\ invoices[2].type = "SALE" /\ invoices[2].cogs > 0
    /\ invoices[2].profit
           = invoices[2].quantityGrams * invoices[2].ratePerGram
                 - invoices[2].cogs
    /\ Len(inventory) = 1 /\ totalRevenueOf(inventory[1]) > invoices[2].taxableAmount

(* C15 - Lot field evolution: over every purchase or sale step a lot keeps  *)
(* its id, date, originalQuantity and costPerGram, its remainingQuantity    *)
(* does not increase and its totalRevenue does not decrease.                *)
LotEvolutionStep ==
    SubmitStep =>
        \A i \in 1..Len(inventory) :
            \E j \in 1..Len(inventory') :
                /\ inventory'[j].id = inventory[i].id
                /\ inventory'[j].date = inventory[i].date
                /\ inventory'[j].originalQuantity = inventory[i].originalQuantity
                /\ inventory'[j].costPerGram = inventory[i].costPerGram
                /\ inventory'[j].remainingQuantity
                       <= inventory[i].remainingQuantity
                /\ totalRevenueOf(inventory'[j]) >= totalRevenueOf(inventory[i])

C15_LotEvolution == [][LotEvolutionStep]_vars

(* C16 - One lot per purchase, never deleted: the ids of the lots are the   *)
(* ids of the PURCHASE transactions, each id on exactly one lot; a lot      *)
(* drained to zero is still in the collection.                              *)
PurchaseIds ==
    { invoices[k].id :
        k \in { n \in 1..Len(invoices) : invoices[n].type = "PURCHASE" } }

C16_OneLotPerPurchase ==
    /\ { inventory[i].id : i \in 1..Len(inventory) } = PurchaseIds
    /\ \A i, j \in 1..Len(inventory) :
           inventory[i].id = inventory[j].id => i = j
    /\ Len(inventory) = Cardinality(PurchaseIds)

(* a lot drained to zero and closed is kept next to an open one *)
C16_Witness ==
    /\ Len(inventory) = 2
    /\ inventory[1].remainingQuantity = 0
    /\ "closedDate" \in DOMAIN inventory[1]
    /\ inventory[1].originalQuantity > 0
    /\ inventory[2].remainingQuantity > 0
    /\ inventory[1].id \in PurchaseIds

----------------------------------------------------------------------------
(* C17 - Reset clears the ledger: after a confirmed reset the transactions  *)
(* and the lots are empty in memory and in the store (a load returns two    *)
(* empty collections), the stock on hand is zero, and a sale that follows   *)
(* is rejected for insufficient stock.                                      *)
ResetStep ==
    handleReset =>
        /\ invoices' = <<>>
        /\ inventory' = <<>>
        /\ loadInvoices(storage') = <<>>
        /\ loadInventory(storage') = <<>>
        /\ currentStockOf(inventory', invoices', searchQuery') = 0

(* the reset toast stays up until the next transaction is recorded *)
SaleAfterResetStep ==
    \A form \in SaleForms :
        handleSubmit(form) /\ toast = "System Reset Complete"
            => /\ error' = "Insufficient Inventory!"
               /\ invoices' = <<>>
               /\ inventory' = <<>>

C17_ResetClears == [][ResetStep /\ SaleAfterResetStep]_vars

(* C18 - Persistence after every mutation: in every state, which is a state *)
(* after the save effect has run, loading the stored snapshot gives the     *)
(* transactions and the lots that are in memory.                            *)
C18_PersistedEqualsMemory ==
    /\ loadInvoices(storage) = invoices
    /\ loadInventory(storage) = inventory

----------------------------------------------------------------------------
(* The aggregates App derives from its state when it renders *)

(* the clock at the time of a render: its day, at or past 00:00 *)
Nows == { [day |-> d, partial |-> p] : d \in {2, 9, 17, 32}, p \in BOOLEAN }

agingStats(now) ==
    calculateStockAging(
        searchFilteredInventory(inventory, invoices, searchQuery), now)

supplierData ==
    calculateSupplierStats(filteredInvoices(invoices, dateRange, searchQuery))

IsZero(ratio) == ratio.num = 0 /\ ratio.den > 0

(* C19 - Aggregations are total: with no transactions and no lots the       *)
(* replayed inventory value is 0 for every date, stock aging has its four   *)
(* buckets at 0 and weightedAvgDays 0, the supplier statistics are an empty *)
(* list, and the turnover statistics have turnoverRatio, avgDaysToSell,     *)
(* avgInventoryValue and totalCOGS at 0.                                    *)
C19_EmptyTotals ==
    invoices = <<>> /\ inventory = <<>> =>
        /\ \A d \in Dates : calculateInventoryValueOnDate(invoices, d).result = 0
        /\ \A now \in Nows :
               /\ agingStats(now).buckets
                      = [k \in {"0-7", "8-15", "16-30", "30+"} |-> 0]
               /\ IsZero(agingStats(now).weightedAvgDays)
        /\ supplierData = <<>>
        /\ IsZero(turnoverStats.turnoverRatio)
        /\ IsZero(turnoverStats.avgDaysToSell)
        /\ turnoverStats.inventoryValueSum = 0
        /\ turnoverStats.totalCOGS = 0

(* the ledger was filled to the bound, reset, and rendered for the one-day  *)
(* range with a search text entered                                         *)
C19_Witness ==
    /\ invoices = <<>> /\ inventory = <<>>
    /\ nextId > MaxInvoices
    /\ toast = "System Reset Complete"
    /\ dateRange # InitialRange
    /\ searchQuery # <<>>

(* C20 - Turnover: for the report range, totalCOGS is the sum of cogs over  *)
(* the SALE transactions dated in the range, avgInventoryValue is the mean  *)
(* of the replayed values at the start and at the end of the range,         *)
(* turnoverRatio is totalCOGS / avgInventoryValue, and 0 when that average  *)
(* is 0, and avgDaysToSell is the days of the range / turnoverRatio, and 0  *)
(* when the ratio is 0.                                                     *)
C20_Turnover ==
    LET sales ==
            SelectSeq(invoices,
                      LAMBDA i : /\ i.type = "SALE"
                                 /\ i.date >= dateRange.start
                                 /\ i.date <= dateRange.end)
        totalCOGS == SumCogs(sales)
        valueSum ==
            calculateInventoryValueOnDate(invoices, dateRange.start).result
                + calculateInventoryValueOnDate(invoices, dateRange.end).result
        ratio == turnoverStats.turnoverRatio
        days == turnoverStats.avgDaysToSell
    IN  /\ turnoverStats.totalCOGS = totalCOGS
        /\ turnoverStats.inventoryValueSum = valueSum
        /\ ratio.den > 0 /\ days.den > 0
        /\ IF valueSum = 0 THEN ratio.num = 0
           ELSE ratio.num * valueSum = 2 * totalCOGS * ratio.den
        /\ IF ratio.num = 0 THEN days.num = 0
           ELSE days.num * ratio.num
                    = daysInPeriod(dateRange.start, dateRange.end)
                          * ratio.den * days.den

----------------------------------------------------------------------------
(* a lot that a sale has taken from *)
drawnOn(batch) ==
    \/ batch.remainingQuantity < batch.originalQuantity
    \/ "totalRevenue" \in DOMAIN batch

(* C21 - Lot ordering: in every state the lots are in ascending order of    *)
(* date, lots of one date are in the order they were created (ids are       *)
(* handed out in that order), and a lot has been drawn on only when every   *)
(* lot of its date created before it has nothing left.                      *)
C21_LotOrdering ==
    \A i, j \in 1..Len(inventory) :
        i < j =>
            /\ inventory[i].date <= inventory[j].date
            /\ inventory[i].date = inventory[j].date =>
                   /\ inventory[i].id < inventory[j].id
                   /\ drawnOn(inventory[j]) =>
                          inventory[i].remainingQuantity <= 0

(* of two lots of one date the one created first is closed and the second   *)
(* has been drawn on and is still open                                      *)
C21_Witness ==
    /\ Len(inventory) = 2
    /\ inventory[1].date = inventory[2].date
    /\ inventory[1].id < inventory[2].id
    /\ inventory[1].originalQuantity > 0
    /\ "closedDate" \in DOMAIN inventory[1]
    /\ drawnOn(inventory[2])
    /\ inventory[2].remainingQuantity > LotCloseEpsilon

\* ---------------------------------------------------------------------
\* C22  closedDate invariant: in every reachable state a lot carries a
\* closedDate if and only if its remainingQuantity is exactly 0, and the
\* closedDate is the date of a recorded sale (the one whose allocation
\* took the lot below the closing epsilon).
\* ---------------------------------------------------------------------
closedBy(batch) ==
    {k \in 1..Len(invoices) :
        /\ invoices[k].type = "SALE"
        /\ invoices[k].date = batch.closedDate}

C22_ClosedDate ==
    \A i \in 1..Len(inventory) :
        /\ "closedDate" \in DOMAIN inventory[i]
               <=> inventory[i].remainingQuantity = 0
        /\ "closedDate" \in DOMAIN inventory[i]
               => closedBy(inventory[i]) # {}

\* ---------------------------------------------------------------------
\* C23  Allocation stop condition: during a sale, once the quantity still
\* to be allocated is at or below the closing epsilon (1e-4), the sale is
\* treated as satisfied and no further lot has its remainingQuantity,
\* totalRevenue or closedDate modified.
\* ---------------------------------------------------------------------
(* the quantity still to allocate when the walk reaches lot j *)
RECURSIVE stillToAllocate(_, _, _)
stillToAllocate(batches, j, quantityGrams) ==
    IF j <= 1 THEN quantityGrams
    ELSE LET before == stillToAllocate(batches, j - 1, quantityGrams)
             batch == batches[j - 1]
         IN  IF before > 0 /\ batch.remainingQuantity > 0
             THEN before - Min(batch.remainingQuantity, before)
             ELSE before

StopConditionStep ==
    SaleCommitted =>
        \A j \in 1..Len(inventory) :
            stillToAllocate(inventory, j, invoices'[1].quantityGrams)
                    <= LotCloseEpsilon
                => inventory'[j] = inventory[j]

C23_StopCondition == [][StopConditionStep]_vars

----------------------------------------------------------------------------
(* App: risk alerts (useMemo over agingStats and invoices) *)

RecentSalesWindow == 5

(* invoices.filter(i => i.type === 'SALE').slice(0, 5) *)
recentSales(invs) ==
    LET sales == SelectSeq(invs, LAMBDA i : i.type = "SALE")
    IN  SubSeq(sales, 1, Min(Len(sales), RecentSalesWindow))

RECURSIVE SumProfit(_)
SumProfit(sales) ==
    IF sales = <<>> THEN 0 ELSE profitOf(Head(sales)) + SumProfit(Tail(sales))

RECURSIVE SumTaxable(_)
SumTaxable(sales) ==
    IF sales = <<>> THEN 0
    ELSE Head(sales).taxableAmount + SumTaxable(Tail(sales))

(* (sumProfit / sumTaxable) < 0.005 in floating point: x / 0 is -Infinity   *)
(* for x < 0, +Infinity for x > 0 and NaN for x = 0, and NaN < y is false   *)
recentMarginIsLow(sumProfit, sumTaxable) ==
    IF sumTaxable > 0 THEN 1000 * sumProfit < 5 * sumTaxable
    ELSE IF sumTaxable < 0 THEN 1000 * sumProfit > 5 * sumTaxable
    ELSE sumProfit < 0

alerts(now) ==
    LET recent == recentSales(invoices)
    IN  (IF agingStats(now).buckets["30+"] > 0
         THEN <<[id |-> "old-stock", severity |-> "HIGH"]>>
         ELSE <<>>)
        \o
        (IF /\ recent # <<>>
            /\ recentMarginIsLow(SumProfit(recent), SumTaxable(recent))
         THEN <<[id |-> "low-margin", severity |-> "MEDIUM"]>>
         ELSE <<>>)

emitted(list, id) == \E k \in 1..Len(list) : list[k].id = id

\* ---------------------------------------------------------------------
\* C24  Low-margin alert with a zero denominator: when the taxableAmount
\* of the (up to 5) most recently stored sales sums to zero, the MEDIUM
\* low-margin alert is not emitted, whatever the profits of those sales.
\* ---------------------------------------------------------------------
C24_ZeroDenominator ==
    LET recent == recentSales(invoices)
    IN  recent # <<>> /\ SumTaxable(recent) = 0 =>
            \A now \in Nows : ~ emitted(alerts(now), "low-margin")

\* ---------------------------------------------------------------------
\* C25  Stock aging partition: every lot with remainingQuantity > 0 adds
\* its remainingQuantity to exactly one of the buckets 0-7, 8-15, 16-30,
\* 30+ according to its age in whole days, so the four buckets sum to the
\* total remainingQuantity of the lots passed in; the HIGH alert is
\* emitted exactly when the 30+ bucket is non-zero.
\* ---------------------------------------------------------------------
AgingBuckets == {"0-7", "8-15", "16-30", "30+"}

(* the remaining quantity of the lots of one age class *)
RECURSIVE SumRemainingAged(_, _, _)
SumRemainingAged(batches, now, bucket) ==
    IF batches = <<>> THEN 0
    ELSE (IF agingBucket(diffDays(now, Head(batches).date)) = bucket
          THEN Head(batches).remainingQuantity ELSE 0)
         + SumRemainingAged(Tail(batches), now, bucket)

C25_AgingPartition ==
    \A now \in Nows :
        LET lots == searchFilteredInventory(inventory, invoices, searchQuery)
            buckets == agingStats(now).buckets
        IN  /\ \A k \in AgingBuckets :
                   buckets[k] = SumRemainingAged(lots, now, k)
            /\ buckets["0-7"] + buckets["8-15"] + buckets["16-30"]
                   + buckets["30+"] = SumRemaining(lots)
            /\ emitted(alerts(now), "old-stock") <=> buckets["30+"] # 0

----------------------------------------------------------------------------
(* App: customer statistics (useMemo over filteredInvoices).  customerStats *)
(* is the object keyed by party name, kept as the sequence of its entries   *)
(* in the order the keys were added.                                        *)

BulkBuyerGrams == 2000000
FrequentCount == 5

(* filteredInvoices.forEach(inv => { ... }) *)
RECURSIVE customerFold(_, _)
customerFold(invs, customerStats) ==
    IF invs = <<>> THEN customerStats
    ELSE LET inv == Head(invs)
             at == { k \in 1..Len(customerStats) :
                         customerStats[k].name = inv.partyName }
             opened ==
                 IF at = {}
                 THEN Append(customerStats,
                             [name |-> inv.partyName, totalGrams |-> 0,
                              totalSpend |-> 0, profitContribution |-> 0,
                              txCount |-> 0])
                 ELSE customerStats
             k == CHOOSE n \in 1..Len(opened) : opened[n].name = inv.partyName
             counted == [opened EXCEPT ![k].txCount = @ + 1]
         IN  customerFold(
                 Tail(invs),
                 IF inv.type = "SALE"
                 THEN [counted EXCEPT
                          ![k].totalGrams = @ + inv.quantityGrams,
                          ![k].totalSpend = @ + inv.totalAmount,
                          ![k].profitContribution = @ + profitOf(inv)]
                 ELSE counted)

(* let pattern = "Regular"; ... pattern += " (Price Sensitive)" ...        *)
(* avgQty = totalGrams / txCount and margin = profit / spend * 100         *)
behaviorPatternOf(stat) ==
    LET base == IF stat.totalGrams > BulkBuyerGrams * stat.txCount
                THEN "Bulk Buyer"
                ELSE IF stat.txCount > FrequentCount THEN "Frequent"
                ELSE "Regular"
        suffix == IF 200 * stat.profitContribution < stat.totalSpend
                  THEN " (Price Sensitive)"
                  ELSE IF 100 * stat.profitContribution > 2 * stat.totalSpend
                       THEN " (High Margin)"
                       ELSE ""
    IN  [base |-> base, suffix |-> suffix]

customerStatOf(stat) ==
    [name |-> stat.name,
     totalGrams |-> stat.totalGrams,
     totalSpend |-> stat.totalSpend,
     profitContribution |-> stat.profitContribution,
     txCount |-> stat.txCount,
     avgQtyPerTx |-> Ratio(stat.totalGrams, stat.txCount),
     behaviorPattern |-> behaviorPatternOf(stat)]

(* .sort((a, b) => b.profitContribution - a.profitContribution) *)
RECURSIVE InsertByProfit(_, _)
InsertByProfit(sorted, x) ==
    IF sorted = <<>> THEN <<x>>
    ELSE IF Head(sorted).profitContribution >= x.profitContribution
         THEN <<Head(sorted)>> \o InsertByProfit(Tail(sorted), x)
         ELSE <<x>> \o sorted

RECURSIVE SortByProfit(_)
SortByProfit(s) ==
    IF s = <<>> THEN <<>>
    ELSE InsertByProfit(SortByProfit(SubSeq(s, 1, Len(s) - 1)), s[Len(s)])

customerDataOf(invs) ==
    LET stats == SelectSeq(customerFold(invs, <<>>),
                           LAMBDA stat : stat.totalSpend > 0)
    IN  SortByProfit([k \in 1..Len(stats) |-> customerStatOf(stats[k])])

customerData ==
    customerDataOf(filteredInvoices(invoices, dateRange, searchQuery))

\* ---------------------------------------------------------------------
\* C26  Customer statistics count only sales: for each customer the
\* reported transaction count is the number of that party's SALE
\* transactions in the filtered set, and the average grams per
\* transaction is the total grams sold divided by that count, also when
\* the party occurs on PURCHASE transactions; the base tag ('Bulk Buyer'
\* if the average exceeds 100 g, else 'Frequent' if the count exceeds 5,
\* else 'Regular') is derived from those values.
\* ---------------------------------------------------------------------
salesTo(name) ==
    SelectSeq(filteredInvoices(invoices, dateRange, searchQuery),
              LAMBDA inv : inv.type = "SALE" /\ inv.partyName = name)

C26_CustomerStats ==
    \A k \in 1..Len(customerData) :
        LET stat == customerData[k]
            sales == salesTo(stat.name)
        IN  /\ stat.txCount = Len(sales)
            /\ stat.totalGrams = SumSold(sales)
            /\ stat.avgQtyPerTx = Ratio(SumSold(sales), Len(sales))
            /\ stat.behaviorPattern.base =
                   IF SumSold(sales) > BulkBuyerGrams * Len(sales)
                   THEN "Bulk Buyer"
                   ELSE IF Len(sales) > FrequentCount THEN "Frequent"
                   ELSE "Regular"

\* ---------------------------------------------------------------------
\* C27  A sale never consumes stock that did not yet exist on the sale
\* date: no committed sale decrements a lot whose date is later than the
\* sale's date, and hence every lot's closedDate is on or after the
\* lot's own date.
\* ---------------------------------------------------------------------
NoFutureStockStep ==
    /\ SaleCommitted =>
           \A j \in 1..Len(inventory) :
               inventory'[j].remainingQuantity < inventory[j].remainingQuantity
                   => inventory[j].date <= invoices'[1].date
    /\ \A j \in 1..Len(inventory') :
           "closedDate" \in DOMAIN inventory'[j]
               => inventory'[j].closedDate >= inventory'[j].date

C27_NoFutureStock == [][NoFutureStockStep]_vars

\* ---------------------------------------------------------------------
\* C28  Cost conservation: in every reachable state the sum over lots of
\* originalQuantity * costPerGram equals the sum over lots of
\* remainingQuantity * costPerGram plus the sum of cogs over the
\* committed sales, up to the closing epsilon times the cost of each
\* closed lot; allocation loses or double-counts no other cost.
\* ---------------------------------------------------------------------
RECURSIVE SumOriginalCost(_)
SumOriginalCost(batches) ==
    IF batches = <<>> THEN 0
    ELSE Head(batches).originalQuantity * Head(batches).costPerGram
         + SumOriginalCost(Tail(batches))

(* the cost that snapping the closed lots to 0 may have dropped *)
RECURSIVE closingTolerance(_)
closingTolerance(batches) ==
    IF batches = <<>> THEN 0
    ELSE (IF "closedDate" \in DOMAIN Head(batches)
          THEN LotCloseEpsilon * Abs(Head(batches).costPerGram) ELSE 0)
         + closingTolerance(Tail(batches))

costGap ==
    SumOriginalCost(inventory) - SumRemainingCost(inventory)
        - SumCogs(SelectSeq(invoices, LAMBDA inv : inv.type = "SALE"))

C28_CostConservation == Abs(costGap) <= closingTolerance(inventory)

(* a committed sale whose cost of goods mixes two lots of different cost *)
C28_Witness ==
    /\ Len(inventory) = 2
    /\ inventory[1].costPerGram # inventory[2].costPerGram
    /\ \A j \in 1..2 : "totalRevenue" \in DOMAIN inventory[j]
    /\ inventory[2].remainingQuantity > LotCloseEpsilon
    /\ \E k \in 1..Len(invoices) :
           /\ invoices[k].type = "SALE"
           /\ invoices[k].cogs
                  = inventory[1].originalQuantity * inventory[1].costPerGram
                    + (inventory[2].originalQuantity
                           - inventory[2].remainingQuantity)
                          * inventory[2].costPerGram

\* ---------------------------------------------------------------------
\* C29  Replay ordering: transactions that share a date are replayed by
\* calculateInventoryValueOnDate in the order in which they were
\* recorded in the ledger (ids are handed out in recording order),
\* although the ledger keeps them newest-first.
\* ---------------------------------------------------------------------
C29_ReplayOrder ==
    \A targetDate \in Dates :
        LET relevantInvoices == relevantInvoicesOf(invoices, targetDate)
        IN  \A i, j \in 1..Len(relevantInvoices) :
                /\ i < j
                /\ relevantInvoices[i].date = relevantInvoices[j].date
                => relevantInvoices[i].id < relevantInvoices[j].id

----------------------------------------------------------------------------
(* App's start-up on a store that holds a saved ledger.  The first render   *)
(* has the initial state of useState, [] and []; its effects run in the     *)
(* order they are declared: the load effect queues the two setState calls,  *)
(* the save effect writes the state of the render it belongs to; the        *)
(* re-render with the queued state changes the save effect's dependencies   *)
(* and it runs again.                                                       *)

(* a ledger as the application leaves it *)
EmptyLedger == [invoices |-> <<>>, inventory |-> <<>>, nextId |-> 1]

(* what one submission of the form makes of a ledger (no lock date, empty   *)
(* search box)                                                              *)
submitted(ledger, form) ==
    IF formError(form, NoLock,
                 currentStockOf(ledger.inventory, ledger.invoices, <<>>)) # ""
    THEN ledger
    ELSE LET added == handleAddInvoice(invoiceOf(form, ledger.nextId),
                                       ledger.invoices, ledger.inventory)
         IN  [invoices |-> added.invoices, inventory |-> added.inventory,
              nextId |-> ledger.nextId + 1]

(* the ledgers reached by at most n submissions *)
RECURSIVE LedgersAfter(_)
LedgersAfter(n) ==
    IF n = 0 THEN {EmptyLedger}
    ELSE LET before == LedgersAfter(n - 1)
         IN  before \cup {submitted(ledger, form) :
                              ledger \in before, form \in Forms}

(* the ledgers a previous session can have saved, leaving room for one     *)
(* more submission                                                         *)
PersistedLedgers == LedgersAfter(MaxInvoices - 1)

InitStartup ==
    \E ledger \in PersistedLedgers :
        /\ invoices = <<>>
        /\ inventory = <<>>
        /\ searchQuery = <<>>
        /\ dateRange = InitialRange
        /\ lockDate = NoLock
        /\ turnoverStats =
               turnoverMemo(calculateTurnoverStats(<<>>, InitialRange.start,
                                                   InitialRange.end))
        /\ error = ""
        /\ toast = ""
        /\ storage = savedSnapshot(ledger.invoices, ledger.inventory)
        /\ nextId = ledger.nextId
        /\ mount = [phase |-> "mounted", queued |-> <<>>]

(* useEffect(() => { setInvoices(loadInvoices());                           *)
(*                   setInventory(loadInventory()); }, [])                  *)
loadEffect ==
    /\ mount.phase = "mounted"
    /\ mount' = [phase |-> "loaded",
                 queued |-> <<[invoices |-> loadInvoices(storage),
                               inventory |-> loadInventory(storage)]>>]
    /\ UNCHANGED <<invoices, inventory, searchQuery, dateRange, lockDate,
                   turnoverStats, error, toast, storage, nextId>>

(* useEffect(() => { saveInvoices(invoices); saveInventory(inventory); },   *)
(*           [invoices, inventory]) of the first render                     *)
saveEffect ==
    /\ mount.phase = "loaded"
    /\ storage' = savedSnapshot(invoices, inventory)
    /\ mount' = [mount EXCEPT !.phase = "saved"]
    /\ UNCHANGED <<invoices, inventory, searchQuery, dateRange, lockDate,
                   turnoverStats, error, toast, nextId>>

(* the re-render with the queued state, and the save effect it triggers *)
renderLoaded ==
    /\ mount.phase = "saved"
    /\ Render(mount.queued[1].invoices, mount.queued[1].inventory, dateRange)
    /\ mount' = Ready
    /\ UNCHANGED <<searchQuery, lockDate, error, toast, nextId>>

NextStartup ==
    \/ loadEffect
    \/ saveEffect
    \/ renderLoaded
    \/ \E form \in Forms : handleSubmit(form)
    \/ \E q \in SearchQueries : setSearchQuery(q)
    \/ \E range \in DateRanges : setDateRange(range)
    \/ handleReset

SpecStartup == InitStartup /\ [][NextStartup]_vars

\* ---------------------------------------------------------------------
\* C30  Start-up safety: while the application starts (load effect, then
\* save effect), the persisted snapshot is never overwritten with
\* collections that differ from what was persisted before, and when
\* start-up completes the in-memory transactions and lots equal the
\* persisted ones.
\* ---------------------------------------------------------------------
StartupStep ==
    mount.phase # "ready" =>
        /\ storage' = storage
        /\ mount'.phase = "ready" =>
               /\ invoices' = loadInvoices(storage')
               /\ inventory' = loadInventory(storage')

C30_StartupSafety == [][StartupStep]_vars

====
